---- MODULE Spec2Model ----
(***************************************************************************)
(* Model of internal/storages/postgres/pg.go: the usr and task tables, the *)
(* identity sequence of task.id, and the operations init, ValidateUser,    *)
(* GetTasks and InsertTask, driven by concurrent request slots.            *)
(*                                                                         *)
(* Tables are sequences of rows in heap (physical) order.  A row of task   *)
(* takes its place in the heap when its INSERT writes it and becomes        *)
(* visible to other statements when that INSERT commits.  Every SQL         *)
(* statement runs in autocommit mode on a pooled connection (pool.Exec /   *)
(* pool.Query), so a statement is the unit of atomicity; the one exception *)
(* is the identity default of task.id, which INSERT draws from a sequence  *)
(* (nextval, never rolled back) before the row is written, and its now(),  *)
(* which is fixed when the statement's transaction starts.                 *)
(* init's statements run as one implicit transaction that takes its table  *)
(* locks statement by statement and holds them until it ends: CREATE INDEX *)
(* takes SHARE on its table, INSERT takes ROW EXCLUSIVE, and the two        *)
(* conflict.                                                               *)
(* Time is counted in ticks; DayLen ticks make one calendar day.           *)
(* Infrastructure failures (unreachable server, cancelled context) are not *)
(* modelled.                                                               *)
(***************************************************************************)
EXTENDS Integers, Sequences, FiniteSets, TLC

\* ---------------------------------------------------------------- bounds
MaxSeq == 3
MaxTime == 2
DayLen == 2

\* ------------------------------------------------------- program constants
SeedUserId == 1
SeedMaxTodo == 5
SeedTaskId == 1
SeedCreateAt == 0

\* two requests may be in flight at once
Slots == {1, 2}
Times == 0..MaxTime
Salts == {1, 2}
Passwords == {"example", "other"}
Usernames == {"firstUser", "secondUser", "nobody"}
Contents == {"todo"}
\* owner ids a caller may pass; id 2 references no user on a database that
\* holds the seed user alone
OwnerIds == {1, 2}

VARIABLES users, tasks, taskSeq, now, pc, call, result

vars == <<users, tasks, taskSeq, now, pc, call, result>>

\* ------------------------------------------------------------ pure helpers
Min(a, b) == IF a < b THEN a ELSE b

\* ts::date -- truncation of a timestamp to its calendar date
Date(ts) == ts \div DayLen

\* gen_salt('bf'): a setting string that carries only a salt
GenSalt(s) == <<s>>

\* crypt(password, setting): the salt is taken from the setting (a fresh
\* salt or a stored hash), the result carries the salt and the digest
Crypt(password, setting) == <<setting[1], password>>

UserIdsOf(us) == {us[i].id : i \in 1..Len(us)}

TaskIdsOf(ts) == {ts[i].id : i \in 1..Len(ts)}

SeedUser(salt) ==
    [id |-> SeedUserId, username |-> "firstUser",
     pwd_hash |-> Crypt("example", GenSalt(salt)), max_todo |-> SeedMaxTodo]

SeedTask ==
    [id |-> SeedTaskId, usr_id |-> SeedUserId, content |-> "test 1",
     create_at |-> SeedCreateAt]

\* INSERT INTO usr ... ON CONFLICT DO NOTHING: a conflict on the primary key
\* or on the UNIQUE username skips the row
InsertSeedUser(us, salt) ==
    IF \E i \in 1..Len(us) : us[i].id = SeedUserId \/ us[i].username = "firstUser"
    THEN us
    ELSE Append(us, SeedUser(salt))

\* variant without the ON CONFLICT clause: a second seed row violates the
\* primary key
InsertSeedTaskNoConflictClause(us, ts) ==
    IF SeedTaskId \in TaskIdsOf(ts) \/ SeedUserId \notin UserIdsOf(us)
    THEN [err |-> "Exec()", tasks |-> ts]
    ELSE [err |-> "nil", tasks |-> Append(ts, SeedTask)]

\* INSERT INTO task ... OVERRIDING SYSTEM VALUE ... ON CONFLICT DO NOTHING:
\* the explicit id does not advance the identity sequence
InsertSeedTask(us, ts) ==
    IF SeedTaskId \in TaskIdsOf(ts)
    THEN [err |-> "nil", tasks |-> ts]
    ELSE IF SeedUserId \in UserIdsOf(us)
         THEN [err |-> "nil", tasks |-> Append(ts, SeedTask)]
         ELSE [err |-> "Exec()", tasks |-> ts]

\* init: one multi-statement Exec, rolled back as a whole on error
InitSchema(us, ts, salt) ==
    LET us2 == InsertSeedUser(us, salt)
        r   == InsertSeedTask(us2, ts)
    IN  IF r.err = "nil"
        THEN [err |-> "nil", users |-> us2, tasks |-> r.tasks]
        ELSE [err |-> r.err, users |-> us, tasks |-> ts]

NoRows == "username or password is not correct"

\* reports which of the two conditions failed
ValidateUserEnumerating(us, username, password) ==
    LET named == SelectSeq(us, LAMBDA u : u.username = username)
        hit   == SelectSeq(named, LAMBDA u : u.pwd_hash = Crypt(password, u.pwd_hash))
    IN  IF Len(hit) > 0 THEN [err |-> "nil", user |-> <<hit[1]>>]
        ELSE IF Len(named) > 0 THEN [err |-> "password is not correct", user |-> <<>>]
        ELSE [err |-> "username is not correct", user |-> <<>>]

\* ValidateUser: SELECT ... WHERE username = $1 AND pwd_hash = crypt($2, pwd_hash);
\* QueryRow scans the first row, pgx.ErrNoRows becomes one fixed error
ValidateUser(us, username, password) ==
    LET hit == SelectSeq(us, LAMBDA u : u.username = username
                                         /\ u.pwd_hash = Crypt(password, u.pwd_hash))
    IN  IF Len(hit) > 0
        THEN [err |-> "nil", user |-> <<hit[1]>>]
        ELSE [err |-> NoRows, user |-> <<>>]

\* compares timestamps within a rolling window of one day
GetTasksRolling(ts, usrId, createAt) ==
    SelectSeq(ts, LAMBDA t : t.usr_id = usrId
                             /\ t.create_at - createAt < DayLen
                             /\ createAt - t.create_at < DayLen)

\* drops the usr_id condition
GetTasksAllUsers(ts, usrId, createAt) ==
    SelectSeq(ts, LAMBDA t : Date(t.create_at) = Date(createAt))

\* GetTasks: SELECT ... WHERE usr_id = $1 AND create_at::date = $2::date, with
\* no ORDER BY: the rows come back in heap order
GetTasks(ts, usrId, createAt) ==
    SelectSeq(ts, LAMBDA t : t.usr_id = usrId /\ Date(t.create_at) = Date(createAt))

\* task without the REFERENCES usr(id) constraint
InsertRowNoForeignKey(us, ts, row) ==
    IF row.id \in TaskIdsOf(ts)
    THEN [err |-> "Exec(): duplicate key", tasks |-> ts]
    ELSE [err |-> "nil", tasks |-> Append(ts, row)]

\* a conflicting id overwrites the stored row
InsertRowUpsert(us, ts, row) ==
    IF row.usr_id \notin UserIdsOf(us)
    THEN [err |-> "Exec(): foreign key", tasks |-> ts]
    ELSE IF row.id \in TaskIdsOf(ts)
         THEN [err |-> "nil",
               tasks |-> [i \in 1..Len(ts) |-> IF ts[i].id = row.id THEN row ELSE ts[i]]]
         ELSE [err |-> "nil", tasks |-> Append(ts, row)]

\* the row write of InsertTask's INSERT: PRIMARY KEY (id) is checked when the
\* row is written, REFERENCES usr(id) at the end of the statement; either
\* failure aborts the statement and Exec returns the error
InsertRow(us, ts, row) ==
    IF row.id \in TaskIdsOf(ts)
    THEN [err |-> "Exec(): duplicate key", tasks |-> ts]
    ELSE IF row.usr_id \notin UserIdsOf(us)
         THEN [err |-> "Exec(): foreign key", tasks |-> ts]
         ELSE [err |-> "nil", tasks |-> Append(ts, row)]

\* ------------------------------------------------------------------- state
NoCall == [kind |-> "none", usr_id |-> 0, content |-> "", id |-> 0, ts |-> 0,
           username |-> "", password |-> ""]
NoResult == [err |-> "none", id |-> 0, user |-> <<>>, rows |-> <<>>]

\* a user registered out of band (max_todo satisfies the CHECK constraint)
SecondUser ==
    [id |-> 2, username |-> "secondUser",
     pwd_hash |-> Crypt("other", GenSalt(2)), max_todo |-> 1]

\* NewPostgres: init() has run on an empty database, or on one that already
\* holds a second user.  gen_salt's random value is opaque to every
\* operation, so the seed hash is built with one representative salt
Init ==
    /\ \E pre \in {<<>>, <<SecondUser>>} :
          LET r == InitSchema(pre, <<>>, 1)
          IN  /\ users = r.users
              /\ tasks = r.tasks
    /\ taskSeq = 0
    /\ now = 0
    /\ pc = [r \in Slots |-> "idle"]
    /\ call = [r \in Slots |-> NoCall]
    /\ result = [r \in Slots |-> NoResult]

\* sequence values still to be drawn by requests already admitted
\* ids of the rows written by INSERTs that have not committed yet
InProgress == {call[q].id : q \in {s \in Slots : pc[s] = "commit"}}

\* what a statement's snapshot shows of a table: the rows in heap order,
\* without those of transactions still in progress
Snapshot(ts, inprog) == SelectSeq(ts, LAMBDA t : t.id \notin inprog)

\* the task table as a statement starting now sees it
Committed ==
    LET inprog == InProgress
    IN  IF inprog = {} THEN tasks ELSE Snapshot(tasks, inprog)

Pending == Cardinality({r \in Slots : pc[r] \in {"insert", "wait"}})

\* createTaskForUser, steps 2-3: count today's tasks with GetTasks and compare
\* with the user's max_todo; reject, or go on to InsertTask
CreateTaskForUser(r, i, c) ==
    /\ pc[r] = "idle"
    /\ i \in 1..Len(users)
    /\ taskSeq + Pending < MaxSeq
    /\ LET today == GetTasks(Committed, users[i].id, now)
       IN  IF Len(today) >= users[i].max_todo
           THEN /\ pc' = [pc EXCEPT ![r] = "done"]
                /\ result' = [result EXCEPT ![r] = [NoResult EXCEPT !.err = "QuotaError"]]
           ELSE /\ pc' = [pc EXCEPT ![r] = "insert"]
                /\ result' = result
    /\ call' = [call EXCEPT ![r] = [NoCall EXCEPT !.kind = "create",
                                    !.usr_id = users[i].id, !.content = c]]
    /\ UNCHANGED <<users, tasks, taskSeq, now>>

\* InsertTask called directly, with any owner id: the INSERT statement
\* reaches the server and its transaction starts, which fixes now()
InsertTaskCall(r, u, c) ==
    /\ pc[r] = "idle"
    /\ taskSeq + Pending < MaxSeq
    /\ pc' = [pc EXCEPT ![r] = "wait"]
    /\ call' = [call EXCEPT ![r] = [NoCall EXCEPT !.kind = "insert", !.usr_id = u,
                                    !.content = c, !.ts = now]]
    /\ UNCHANGED <<users, tasks, taskSeq, now, result>>

\* table locks held by the statements in flight
HoldsShareUsr(q) == pc[q] \in {"init1", "init2"}

HoldsShareTask(q) == pc[q] = "init2"

HoldsRowExclusiveTask(q) == pc[q] \in {"write", "commit"}

\* InsertTask called by createTaskForUser, some time after its GetTasks: the
\* INSERT statement reaches the server and its transaction starts, which
\* fixes now()
InsertTaskStart(r) ==
    /\ pc[r] = "insert"
    /\ call' = [call EXCEPT ![r].ts = now]
    /\ pc' = [pc EXCEPT ![r] = "wait"]
    /\ UNCHANGED <<users, tasks, taskSeq, now, result>>

\* InsertTask, the INSERT is granted ROW EXCLUSIVE on task (it waits while an
\* init holds SHARE) and the identity default draws the next sequence value
InsertTaskExec(r) ==
    /\ pc[r] = "wait"
    /\ \A q \in Slots : ~HoldsShareTask(q)
    /\ taskSeq' = taskSeq + 1
    /\ call' = [call EXCEPT ![r].id = taskSeq + 1]
    /\ pc' = [pc EXCEPT ![r] = "write"]
    /\ UNCHANGED <<users, tasks, now, result>>

\* InsertTask, the row write: the row takes its place in the heap, not yet
\* visible to other statements; a constraint violation aborts the statement
\* and Exec returns the error (the tuple it leaves behind is dead, visible to
\* no statement, and is not kept here)
InsertTaskWrite(r) ==
    /\ pc[r] = "write"
    /\ LET row == [id |-> call[r].id, usr_id |-> call[r].usr_id,
                   content |-> call[r].content, create_at |-> call[r].ts]
           w   == InsertRow(users, tasks, row)
       IN  /\ tasks' = w.tasks
           /\ IF w.err = "nil"
              THEN /\ pc' = [pc EXCEPT ![r] = "commit"]
                   /\ call' = [call EXCEPT ![r].ts = 0]
                   /\ result' = result
              ELSE /\ pc' = [pc EXCEPT ![r] = "done"]
                   /\ call' = [call EXCEPT ![r].id = 0, ![r].ts = 0]
                   /\ result' = [result EXCEPT ![r] = [NoResult EXCEPT !.err = w.err]]
    /\ UNCHANGED <<users, taskSeq, now>>

\* InsertTask, the commit of the INSERT and the return of Exec: the row
\* becomes visible at the place it was written to
InsertTaskCommit(r) ==
    /\ pc[r] = "commit"
    /\ result' = [result EXCEPT ![r] = [NoResult EXCEPT !.err = "ok", !.id = call[r].id]]
    /\ pc' = [pc EXCEPT ![r] = "done"]
    /\ call' = [call EXCEPT ![r].id = 0]
    /\ UNCHANGED <<users, tasks, taskSeq, now>>

ValidateUserCall(r, username, password) ==
    /\ pc[r] = "idle"
    /\ LET v == ValidateUser(users, username, password)
       IN  result' = [result EXCEPT ![r] = [NoResult EXCEPT !.err = v.err,
                                                            !.user = v.user]]
    /\ call' = [call EXCEPT ![r] = [NoCall EXCEPT !.kind = "ValidateUser",
                                    !.username = username, !.password = password]]
    /\ pc' = [pc EXCEPT ![r] = "done"]
    /\ UNCHANGED <<users, tasks, taskSeq, now>>

GetTasksCall(r, u, d) ==
    /\ pc[r] = "idle"
    /\ result' = [result EXCEPT ![r] = [NoResult EXCEPT !.err = "nil",
                                        !.rows = GetTasks(Committed, u, d)]]
    /\ call' = [call EXCEPT ![r] = [NoCall EXCEPT !.kind = "GetTasks",
                                    !.usr_id = u, !.ts = d]]
    /\ pc' = [pc EXCEPT ![r] = "done"]
    /\ UNCHANGED <<users, tasks, taskSeq, now>>

\* init() run again on the initialized database (a later NewPostgres): the
\* statements up to CREATE INDEX ... ON usr change nothing and leave the
\* transaction holding SHARE on usr
ReInit(r) ==
    /\ pc[r] = "idle"
    /\ call' = [call EXCEPT ![r] = [NoCall EXCEPT !.kind = "init"]]
    /\ pc' = [pc EXCEPT ![r] = "init1"]
    /\ UNCHANGED <<users, tasks, taskSeq, now, result>>

\* init, CREATE INDEX ... ON task: takes SHARE on task, waiting while an
\* INSERT in flight holds ROW EXCLUSIVE
InitIndexTask(r) ==
    /\ pc[r] = "init1"
    /\ \A q \in Slots : ~HoldsRowExclusiveTask(q)
    /\ pc' = [pc EXCEPT ![r] = "init2"]
    /\ UNCHANGED <<users, tasks, taskSeq, now, call, result>>

\* init, the two seed INSERTs and the end of the transaction: ROW EXCLUSIVE
\* on usr waits while another init holds SHARE on usr
InitSeed(r, salt) ==
    /\ pc[r] = "init2"
    /\ \A q \in Slots \ {r} : ~HoldsShareUsr(q)
    /\ LET s == InitSchema(users, tasks, salt)
       IN  /\ users' = s.users
           /\ tasks' = s.tasks
           /\ result' = [result EXCEPT ![r] = [NoResult EXCEPT !.err = s.err]]
    /\ pc' = [pc EXCEPT ![r] = "done"]
    /\ UNCHANGED <<taskSeq, now, call>>

\* two inits each hold SHARE on usr and wait for ROW EXCLUSIVE on it: the
\* deadlock detector aborts one, whose Exec returns the error
InitDeadlock(r) ==
    /\ pc[r] = "init2"
    /\ \E q \in Slots \ {r} : pc[q] = "init2"
    /\ result' = [result EXCEPT ![r] = [NoResult EXCEPT !.err = "Exec(): deadlock detected"]]
    /\ pc' = [pc EXCEPT ![r] = "done"]
    /\ UNCHANGED <<users, tasks, taskSeq, now, call>>

\* the caller takes the result; the slot is free for the next request
Return(r) ==
    /\ pc[r] = "done"
    /\ pc' = [pc EXCEPT ![r] = "idle"]
    /\ call' = [call EXCEPT ![r] = NoCall]
    /\ result' = [result EXCEPT ![r] = NoResult]
    /\ UNCHANGED <<users, tasks, taskSeq, now>>

Tick ==
    /\ now < MaxTime
    /\ now' = now + 1
    /\ UNCHANGED <<users, tasks, taskSeq, pc, call, result>>

SlotStep(r) ==
    InsertTaskStart(r) \/ InsertTaskExec(r) \/ InsertTaskWrite(r) \/ InsertTaskCommit(r)

InitStep(r) == InitIndexTask(r) \/ (\E salt \in Salts : InitSeed(r, salt)) \/ InitDeadlock(r)

Next ==
    \/ \E r \in Slots, i \in 1..2, c \in Contents : CreateTaskForUser(r, i, c)
    \/ \E r \in Slots, u \in OwnerIds, c \in Contents : InsertTaskCall(r, u, c)
    \/ \E r \in Slots : InsertTaskStart(r)
    \/ \E r \in Slots : InsertTaskExec(r)
    \/ \E r \in Slots : InsertTaskWrite(r)
    \/ \E r \in Slots : InsertTaskCommit(r)
    \/ \E r \in Slots, un \in Usernames, pw \in Passwords : ValidateUserCall(r, un, pw)
    \/ \E r \in Slots, u \in OwnerIds, d \in Times : GetTasksCall(r, u, d)
    \/ \E r \in Slots : ReInit(r)
    \/ \E r \in Slots : InitIndexTask(r)
    \/ \E r \in Slots, salt \in Salts : InitSeed(r, salt)
    \/ \E r \in Slots : InitDeadlock(r)
    \/ \E r \in Slots : Return(r)
    \/ Tick

Spec == Init /\ [][Next]_vars

\* the traffic of task-creation requests alone: every InsertTask is reached
\* through createTaskForUser
NextProtocol ==
    \/ \E r \in Slots, i \in 1..2, c \in Contents : CreateTaskForUser(r, i, c)
    \/ \E r \in Slots : InsertTaskStart(r)
    \/ \E r \in Slots : InsertTaskExec(r)
    \/ \E r \in Slots : InsertTaskWrite(r)
    \/ \E r \in Slots : InsertTaskCommit(r)
    \/ \E r \in Slots, u \in OwnerIds, d \in Times : GetTasksCall(r, u, d)
    \/ \E r \in Slots : Return(r)
    \/ Tick

ProtocolSpec == Init /\ [][NextProtocol]_vars

\* every statement sent to the database completes: an init in flight runs to
\* its end, and an INSERT waiting for its lock is served (the lock queue is
\* first come, first served)
FairSpec ==
    /\ Spec
    /\ \A r \in Slots : WF_vars(InitStep(r)) /\ SF_vars(SlotStep(r))

\* ------------------------------------------------------------------ claims
Days == 0..Date(MaxTime)

RowsOf(seq) == {seq[k] : k \in 1..Len(seq)}

\* the stored (committed) rows of user u created on calendar day d
OnDay(u, d) ==
    LET stored == Committed
    IN  {k \in 1..Len(stored) : stored[k].usr_id = u /\ Date(stored[k].create_at) = d}

InFlight(r) == pc[r] \in {"insert", "wait", "write", "commit"}

Creating(r) == call[r].kind = "create"

\* C1: under any interleaving of task-creation requests (ProtocolSpec), for
\* every user and every calendar day the number of stored tasks of that user
\* created on that day is at most the user's max_todo.
C1_QuotaNeverExceeded ==
    \A i \in 1..Len(users) : \A d \in Days :
        Cardinality(OnDay(users[i].id, d)) <= users[i].max_todo

\* C2: when all N requests are createTaskForUser calls for one user who had
\* no task today before them, and all have returned, exactly min(N, max_todo)
\* succeeded and every other one was rejected with QuotaError.
C2_ExactlyMinSucceed ==
    \A i \in 1..Len(users) :
        LET u  == users[i].id
            ok == {r \in Slots : result[r].err = "ok"}
        IN  (/\ now = 0
             /\ \A r \in Slots : pc[r] = "done" /\ Creating(r) /\ call[r].usr_id = u
             /\ {Committed[k].id : k \in OnDay(u, Date(now))} = {result[r].id : r \in ok})
            => /\ Cardinality(ok) = Min(Cardinality(Slots), users[i].max_todo)
               /\ \A r \in Slots \ ok : result[r].err = "QuotaError"

\* what ValidateUser must return for (un, pw): the stored user whose
\* password is pw, else the one InvalidCredentials outcome
AuthExpected(v, un, pw) ==
    LET match == {i \in 1..Len(users) : users[i].username = un
                                        /\ users[i].pwd_hash[2] = pw}
    IN  IF match # {}
        THEN v.err = "nil" /\ \E i \in match : v.user = <<users[i]>>
        ELSE v.err = NoRows /\ v.user = <<>>

\* C3: ValidateUser returns the stored user (with its max_todo) exactly when
\* username and password both match, and otherwise one and the same error,
\* whether the username is absent or the password is wrong.
C3_AuthIndistinguishable ==
    /\ \A un \in Usernames, pw \in Passwords :
          AuthExpected(ValidateUser(users, un, pw), un, pw)
    /\ \A r \in Slots :
          (pc[r] = "done" /\ call[r].kind = "ValidateUser")
          => /\ AuthExpected(result[r], call[r].username, call[r].password)
             /\ (result[r].user = <<>> => result[r] = [NoResult EXCEPT !.err = NoRows])

\* C3 witness: one request with an unknown username and one with a known
\* username and a wrong password have both returned, with equal results
C3_Witness ==
    \E r1, r2 \in Slots :
        /\ pc[r1] = "done" /\ call[r1].kind = "ValidateUser"
        /\ pc[r2] = "done" /\ call[r2].kind = "ValidateUser"
        /\ \A i \in 1..Len(users) : users[i].username # call[r1].username
        /\ \E i \in 1..Len(users) : /\ users[i].username = call[r2].username
                                    /\ users[i].pwd_hash[2] # call[r2].password
        /\ result[r1] = result[r2]

\* C4: init on an initialized store returns no error and leaves both tables
\* as they are, with one seed user and one seed task.
C4_InitIdempotent ==
    /\ \A salt \in Salts :
          InitSchema(users, tasks, salt) = [err |-> "nil", users |-> users, tasks |-> tasks]
    /\ Cardinality({i \in 1..Len(users) : users[i].username = "firstUser"}) = 1
    /\ Cardinality({i \in 1..Len(users) : users[i].id = SeedUserId}) = 1
    /\ Cardinality({k \in 1..Len(tasks) : tasks[k].id = SeedTaskId}) = 1
    /\ \A r \in Slots : (pc[r] = "done" /\ call[r].kind = "init") => result[r].err = "nil"

\* C5: every stored task's usr_id is the id of a stored user, and an
\* InsertTask whose owner id references no user returns an error and stores
\* nothing.
C5_ForeignKey ==
    /\ \A k \in 1..Len(tasks) : tasks[k].usr_id \in UserIdsOf(users)
    /\ \A r \in Slots :
          (pc[r] = "done" /\ call[r].kind = "insert" /\ call[r].usr_id \notin UserIdsOf(users))
          => result[r].err \in {"Exec(): foreign key", "Exec(): duplicate key"}
             /\ result[r].id = 0

\* C5 witness: an InsertTask for an unknown owner was refused by the
\* foreign key
C5_Witness ==
    \E r \in Slots : /\ pc[r] = "done" /\ call[r].kind = "insert"
                     /\ call[r].usr_id \notin UserIdsOf(users)
                     /\ result[r].err = "Exec(): foreign key"

C6_ListByDate ==
    /\ \A u \in OwnerIds, d \in Times :
          LET stored == Committed
              got    == GetTasks(stored, u, d)
              onDay  == OnDay(u, Date(d))
          IN  /\ RowsOf(got) = {stored[k] : k \in onDay}
              /\ Len(got) = Cardinality(onDay)
    /\ \A r \in Slots :
          (pc[r] = "done" /\ call[r].kind = "GetTasks")
          => \A k \in 1..Len(result[r].rows) :
                /\ result[r].rows[k] \in RowsOf(tasks)
                /\ result[r].rows[k].id \notin InProgress
                /\ result[r].rows[k].usr_id = call[r].usr_id
                /\ Date(result[r].rows[k].create_at) = Date(call[r].ts)

C6_QuotaByDate ==
    \A r \in Slots : \A i \in 1..Len(users) :
        (pc[r] = "idle" /\ pc'[r] # "idle" /\ call'[r].kind = "create"
            /\ call'[r].usr_id = users[i].id)
        => (result'[r].err = "QuotaError"
               <=> Cardinality(OnDay(users[i].id, Date(now))) >= users[i].max_todo)

\* C6: GetTasks(user, day) returns exactly the user's tasks whose creation
\* timestamp truncates to the date of day, and a creation is rejected exactly
\* when the tasks created on today's date reach max_todo: tasks of another
\* date, however close in time, do not count.
C6_PerCalendarDate == []C6_ListByDate /\ [][C6_QuotaByDate]_vars

\* C6 witness: a user has a task created at the last instant of one day and
\* one created at the first instant of the next, and a listing of the second
\* day returned only the second
C6_Witness ==
    \E k1, k2 \in 1..Len(Committed), r \in Slots :
        /\ Committed[k1].usr_id = Committed[k2].usr_id
        /\ Committed[k1].create_at = DayLen - 1
        /\ Committed[k2].create_at = DayLen
        /\ pc[r] = "done" /\ call[r].kind = "GetTasks"
        /\ call[r].usr_id = Committed[k1].usr_id
        /\ Date(call[r].ts) = 1
        /\ result[r].rows = <<Committed[k2]>>

IsSortedById(rows) == \A a, b \in 1..Len(rows) : a < b => rows[a].id < rows[b].id

\* C7: GetTasks returns the rows ordered by id ascending, and an empty
\* sequence without an error when there is none.
C7_ListOrderedById ==
    \A r \in Slots :
        (pc[r] = "done" /\ call[r].kind = "GetTasks")
        => result[r].err = "nil" /\ IsSortedById(result[r].rows)

\* the user a step of slot r works for
Actor(r) == IF pc[r] = "idle" THEN call'[r].usr_id ELSE call[r].usr_id

C8_NeverBlocked ==
    \A r \in Slots :
        (InFlight(r) /\ \A q \in Slots : call[q].kind # "init") => ENABLED SlotStep(r)

C8_OtherUsersUntouched ==
    \A r \in Slots :
        (pc'[r] # pc[r] /\ (Creating(r) \/ call'[r].kind = "create"))
        => \A i \in 1..Len(users) : \A d \in Times :
              users[i].id # Actor(r)
              => /\ GetTasks(Committed', users[i].id, d) = GetTasks(Committed, users[i].id, d)
                 /\ (Len(GetTasks(Committed', users[i].id, d)) >= users[i].max_todo)
                       <=> (Len(GetTasks(Committed, users[i].id, d)) >= users[i].max_todo)

\* C8: a creation in flight for one user can always take its next step,
\* whatever the other creations are doing (only an init in flight makes it
\* wait), and no step of a creation for user
\* A changes what GetTasks returns for another user B on any day, nor the
\* outcome of B's quota comparison.
C8_UsersIndependent == []C8_NeverBlocked /\ [][C8_OtherUsersUntouched]_vars

\* C8 witness: a creation for one user has succeeded while a creation for
\* another user is in flight
C8_Witness ==
    \E r1, r2 \in Slots :
        /\ pc[r1] = "done" /\ Creating(r1) /\ result[r1].err = "ok"
        /\ InFlight(r2) /\ Creating(r2)
        /\ call[r2].usr_id # call[r1].usr_id

C9_Frame ==
    /\ users' = users
    /\ RowsOf(tasks) \subseteq RowsOf(tasks')
    /\ \/ Committed' = Committed
       \/ \E r \in Slots :
             /\ pc[r] = "commit" /\ pc'[r] = "done"
             /\ result'[r].err = "ok"
             /\ result'[r].id \notin TaskIdsOf(Committed)
             /\ Len(Committed') = Len(Committed) + 1
             /\ \E row \in RowsOf(Committed') :
                   /\ row.id = result'[r].id
                   /\ row.usr_id = call[r].usr_id
                   /\ RowsOf(Committed') = RowsOf(Committed) \cup {row}
    /\ \A r \in Slots :
          (pc'[r] = "done" /\ pc[r] # "done" /\ result'[r].err # "ok")
          => Committed' = Committed

EveryInsertReturns == \A r \in Slots : InFlight(r) ~> (pc[r] = "done")

\* C10: every createTaskForUser call returns, and what it returns is success
\* or QuotaError.
C10_ReturnsSuccessOrQuota ==
    \A r \in Slots :
        (pc[r] = "done" /\ Creating(r)) => result[r].err \in {"ok", "QuotaError"}

====
